---- MODULE Spec2Model ----
(***************************************************************************)
(* Incremental invoice synchronisation (fetch_invoices.py, client.py,      *)
(* crypto.py): the authentication handshake, the export / poll / download  *)
(* / extract pipeline, the continuation points and the deduplication.      *)
(***************************************************************************)
EXTENDS Integers, Sequences, FiniteSets, TLC

(* ----------------------------- bounds ---------------------------------- *)
\* dates are 1..MaxDate, ordered as the instants they denote
MaxDate == 2
\* documents per archive
MaxEntries == 2
\* "in progress" answers a status endpoint gives before its final answer
MaxPending == 60
\* parts of a package
MaxParts == 3
\* calendar months the clock goes through
MaxMonth == 2
\* AES blocks of a decrypted payload
MaxBlocks == 2

(* ------------------------- program constants --------------------------- *)
AUTH_MAX_ATTEMPTS == 10
EXPORT_MAX_ATTEMPTS == 60
SUBJECT_TYPES == <<"Subject1", "Subject2", "Subject3">>

Roles == {SUBJECT_TYPES[i] : i \in 1..Len(SUBJECT_TYPES)}

(* ------------------------------ values --------------------------------- *)
\* an absent key of the state dict / of a package (dict.get gives None)
NoDate == 0
Dates == 1..MaxDate
MaybeDate == {NoDate} \cup Dates

\* self.access_token before redemption (None); "" is an empty token string
NoToken == "<None>"
AuthTokens == {"authenticationToken"}
AccessTokens == {"", "accessToken"}
\* Python truthiness of a token: `if not self.access_token`
Truthy(token) == token \notin {NoToken, ""}

\* strings are sequences of pieces, ".xml" being one piece
XML == ".xml"
FileA == <<"a", XML>>
FileAX == <<"a", XML, XML>>
MetaName == <<"_metadata.json">>
FileNames == {FileA, FileAX}
Contents == {"v1", "v2"}
NoFile == "<absent>"

(* ------------------------- bounded polling ----------------------------- *)
\* status codes a status endpoint answers with; HttpError is a response
\* on which raise_for_status() raises
HttpError == -1
PendingCodes == {100, 201, 399}
FinalCodes == {200, 400, 500, HttpError}

\* the answers of the endpoint, by attempt: n pending codes c, then t for ever
Script(n, c, t) == [i \in 1..(MaxPending + EXPORT_MAX_ATTEMPTS + 1) |-> IF i <= n THEN c ELSE t]

\* faulty variant: the sleep precedes the test of the status code
PollLoopSleepsFirst(script, max_attempts) ==
    LET left == {i \in 1..max_attempts :
                    script[i] = HttpError \/ script[i] = 200 \/ script[i] >= 400}
    IN  IF left = {}
        THEN [result |-> "timeout", requests |-> max_attempts, sleeps |-> max_attempts]
        ELSE LET last == CHOOSE i \in left : \A j \in left : i <= j
                 status_code == script[last]
             IN  [result |-> IF status_code = HttpError THEN "http_error"
                             ELSE IF status_code = 200 THEN "ok"
                             ELSE "rejected",
                  requests |-> last,
                  sleeps |-> last]

\* faulty variant: every code from 200 to 299 ends the loop with success
PollLoopAcceptsAny2xx(script, max_attempts) ==
    LET left == {i \in 1..max_attempts :
                    script[i] = HttpError \/ script[i] \in 200..299 \/ script[i] >= 400}
    IN  IF left = {}
        THEN [result |-> "timeout", requests |-> max_attempts, sleeps |-> max_attempts]
        ELSE LET last == CHOOSE i \in left : \A j \in left : i <= j
                 status_code == script[last]
             IN  [result |-> IF status_code = HttpError THEN "http_error"
                             ELSE IF status_code \in 200..299 THEN "ok"
                             ELSE "rejected",
                  requests |-> last,
                  sleeps |-> last - 1]

\* for _ in range(max_attempts): the loop is left at the first attempt whose
\* answer is not "in progress" (a sleep follows every attempt that is), and a
\* loop that is never left ends in the timeout
PollLoop(script, max_attempts) ==
    LET left == {i \in 1..max_attempts :
                    script[i] = HttpError \/ script[i] = 200 \/ script[i] >= 400}
    IN  IF left = {}
        THEN [result |-> "timeout", requests |-> max_attempts, sleeps |-> max_attempts]
        ELSE LET last == CHOOSE i \in left : \A j \in left : i <= j
                 status_code == script[last]
             IN  [result |-> IF status_code = HttpError THEN "http_error"
                             ELSE IF status_code = 200 THEN "ok"
                             ELSE "rejected",
                  requests |-> last,
                  sleeps |-> last - 1]

\* the description of the final status: absent, or a text of the server
NoDescription == "<absent>"
Descriptions == {NoDescription, "server description"}

\* the message of the exception a poll ends with; the description of the
\* status is data.get('status', {}).get('description', 'Unknown error');
\* the texts are written here without their diacritics
PollMessage(who, result, description) ==
    IF result = "rejected"
    THEN <<IF who = "auth" THEN "Uwierzytelnianie nie powiodlo sie: "
                           ELSE "Eksport nie powiodl sie: ",
           IF description = NoDescription THEN "Unknown error" ELSE description>>
    ELSE IF result = "timeout"
    THEN <<IF who = "auth" THEN "Timeout podczas oczekiwania na uwierzytelnienie"
                           ELSE "Timeout podczas oczekiwania na eksport">>
    ELSE IF result = "ok" THEN <<>>
    ELSE <<result>>

WaitForAuthCompletionResult(script) == PollLoop(script, AUTH_MAX_ATTEMPTS)

\* get_export_status refuses without a token, before any request
WaitForExportCompletionResult(token, script) ==
    IF ~Truthy(token)
    THEN [result |-> "not_authenticated", requests |-> 0, sleeps |-> 0]
    ELSE PollLoop(script, EXPORT_MAX_ATTEMPTS)

(* ----------------------------- archives -------------------------------- *)
EndsWithXml(filename) == Len(filename) > 0 /\ filename[Len(filename)] = XML
\* str.replace('.xml', ''): every occurrence is removed
ReplaceXml(filename) == SelectSeq(filename, LAMBDA piece : piece # XML)

NoMetadata == [present |-> FALSE, hasInvoices |-> FALSE, invoices |-> <<>>]

\* zf.namelist(): the metadata entry, when there is one, and the documents
Namelist(archive) ==
    (IF archive.metadata.present THEN <<MetaName>> ELSE <<>>)
        \o [i \in 1..Len(archive.entries) |-> archive.entries[i].name]

\* zf.open(filename).read(): of entries of one name the last one is read
RECURSIVE LastContent(_, _, _)
LastContent(entries, filename, i) ==
    IF i = 0 THEN NoFile
    ELSE IF entries[i].name = filename THEN entries[i].content
    ELSE LastContent(entries, filename, i - 1)

\* the loop over metadata['invoices']; <<>> when nothing matches
RECURSIVE FindKsefNumber(_, _, _)
FindKsefNumber(invoices, filename, i) ==
    IF i > Len(invoices) THEN <<>>
    ELSE IF invoices[i] \o <<XML>> = filename THEN invoices[i]
    ELSE FindKsefNumber(invoices, filename, i + 1)

KsefNumber(filename, metadata) ==
    LET found == IF metadata.present /\ metadata.hasInvoices
                 THEN FindKsefNumber(metadata.invoices, filename, 1)
                 ELSE <<>>
    IN  IF found = <<>> THEN ReplaceXml(filename) ELSE found

\* faulty variant: the file on disk is not looked at
SaveInvoiceNoDiskCheck(fs, archive, filename) ==
    LET ksef_number == KsefNumber(filename, archive.metadata)
    IN  IF ksef_number \in fs.seen THEN fs
        ELSE [disk |-> [fs.disk EXCEPT ![filename] =
                            LastContent(archive.entries, filename, Len(archive.entries))],
              seen |-> fs.seen \cup {ksef_number},
              new  |-> Append(fs.new, [ksefNumber |-> ksef_number, filename |-> filename])]

\* faulty variant: the set of identifiers is not looked at
SaveInvoiceNoSeenCheck(fs, archive, filename) ==
    LET ksef_number == KsefNumber(filename, archive.metadata)
    IN  IF fs.disk[filename] # NoFile
        THEN [fs EXCEPT !.seen = @ \cup {ksef_number}]
        ELSE [disk |-> [fs.disk EXCEPT ![filename] =
                            LastContent(archive.entries, filename, Len(archive.entries))],
              seen |-> fs.seen \cup {ksef_number},
              new  |-> Append(fs.new, [ksefNumber |-> ksef_number, filename |-> filename])]

\* fs = [disk, seen, new]: the invoice directory, self.downloaded_invoices
\* and self.new_invoices
SaveInvoice(fs, archive, filename) ==
    LET ksef_number == KsefNumber(filename, archive.metadata)
    IN  IF ksef_number \in fs.seen THEN fs
        ELSE IF fs.disk[filename] # NoFile
        THEN [fs EXCEPT !.seen = @ \cup {ksef_number}]
        ELSE [disk |-> [fs.disk EXCEPT ![filename] =
                            LastContent(archive.entries, filename, Len(archive.entries))],
              seen |-> fs.seen \cup {ksef_number},
              new  |-> Append(fs.new, [ksefNumber |-> ksef_number, filename |-> filename])]

\* the loop over zf.namelist(), for its first n names
RECURSIVE ExtractNames(_, _, _)
ExtractNames(fs, archive, n) ==
    IF n = 0 THEN fs
    ELSE LET before == ExtractNames(fs, archive, n - 1)
             filename == Namelist(archive)[n]
         IN  IF EndsWithXml(filename) THEN SaveInvoice(before, archive, filename)
             ELSE before

\* whether the n-th name of the archive reaches the write of its file
WritesAt(fs, archive, n) ==
    LET before == ExtractNames(fs, archive, n - 1)
        filename == Namelist(archive)[n]
    IN  /\ EndsWithXml(filename)
        /\ KsefNumber(filename, archive.metadata) \notin before.seen
        /\ before.disk[filename] = NoFile

NoFault == [kind |-> "none", at |-> 0]

\* _process_package under a fault: the download of part `at` fails, the
\* decryption or the opening of the archive fails, or the write of the
\* at-th name fails
\* faulty variant: a part that cannot be fetched is left out and the parts
\* fetched are processed
ProcessPackageSkipsPart(fs, package, envelope, fault) ==
    LET parts == package.parts
        got == IF fault.kind = "part"
               THEN SubSeq(parts, 1, fault.at - 1) \o SubSeq(parts, fault.at + 1, Len(parts))
               ELSE parts
    IN  [raised |-> fault.kind \in {"decrypt", "zip", "write"},
         fs |-> IF fault.kind \in {"decrypt", "zip"} THEN fs
                ELSE ExtractNames(fs, package.archive,
                                  IF fault.kind = "write" THEN fault.at - 1
                                  ELSE Len(Namelist(package.archive))),
         downloads |-> Len(parts), fetched |-> parts,
         decrypt |-> <<[data |-> got, key |-> envelope.key, iv |-> envelope.iv]>>]

\* `fetched` are the part URLs requested, in the order of the requests, and
\* `decrypt` the calls of decrypt_aes: the bytes written to encrypted_data
\* (one piece per part) with the key and IV handed over
ProcessPackage(fs, package, envelope, fault) ==
    LET parts == package.parts
        all == [raised |-> FALSE, fs |-> fs, downloads |-> Len(parts), fetched |-> parts,
                decrypt |-> <<[data |-> parts, key |-> envelope.key, iv |-> envelope.iv]>>]
    IN  IF Len(parts) = 0
        THEN [raised |-> FALSE, fs |-> fs, downloads |-> 0, fetched |-> <<>>,
              decrypt |-> <<>>]
        ELSE IF fault.kind = "part"
        THEN [raised |-> TRUE, fs |-> fs, downloads |-> fault.at,
              fetched |-> SubSeq(parts, 1, fault.at), decrypt |-> <<>>]
        ELSE IF fault.kind \in {"decrypt", "zip"}
        THEN [all EXCEPT !.raised = TRUE]
        ELSE IF fault.kind = "write"
        THEN [all EXCEPT !.raised = TRUE,
                         !.fs = ExtractNames(fs, package.archive, fault.at - 1)]
        ELSE [all EXCEPT !.fs = ExtractNames(fs, package.archive,
                                             Len(Namelist(package.archive)))]

(* ------------------------ continuation points -------------------------- *)
\* faulty variant: the truncation flag is not looked at
UpdateContinuationPointIgnoresTruncation(st, subject_type, package) ==
    IF package.permanentStorageHwmDate # NoDate
    THEN [st EXCEPT ![subject_type] = package.permanentStorageHwmDate]
    ELSE IF package.lastPermanentStorageDate # NoDate
    THEN [st EXCEPT ![subject_type] = package.lastPermanentStorageDate]
    ELSE st

\* faulty variant: when the date that applies is absent the other one is taken
UpdateContinuationPointFallsBack(st, subject_type, package) ==
    LET first == IF package.isTruncated = "true"
                 THEN package.lastPermanentStorageDate
                 ELSE package.permanentStorageHwmDate
        second == IF package.isTruncated = "true"
                  THEN package.permanentStorageHwmDate
                  ELSE package.lastPermanentStorageDate
    IN  IF first # NoDate THEN [st EXCEPT ![subject_type] = first]
        ELSE IF second # NoDate THEN [st EXCEPT ![subject_type] = second]
        ELSE st

UpdateContinuationPoint(st, subject_type, package) ==
    IF package.isTruncated = "true"
    THEN IF package.lastPermanentStorageDate # NoDate
         THEN [st EXCEPT ![subject_type] = package.lastPermanentStorageDate]
         ELSE st
    ELSE IF package.permanentStorageHwmDate # NoDate
         THEN [st EXCEPT ![subject_type] = package.permanentStorageHwmDate]
         ELSE st

\* faulty variant: the update precedes _process_package
CursorAfterEager(st, subject_type, package, raised) ==
    UpdateContinuationPoint(st, subject_type, package)

\* faulty variant: a package without parts does not reach the update
CursorAfterNeedsParts(st, subject_type, package, raised) ==
    IF raised \/ Len(package.parts) = 0 THEN st
    ELSE UpdateContinuationPoint(st, subject_type, package)

\* the dict after _process_package and the statement that follows it: the
\* update is reached only when _process_package returned
CursorAfter(st, subject_type, package, raised) ==
    IF raised THEN st ELSE UpdateContinuationPoint(st, subject_type, package)

\* faulty variant: the cursor of the state file is ignored
DateFromMonthStart(st, subject_type, month) ==
    [kind |-> "month_start", value |-> month]

\* the lower bound of the export: the cursor, or the first instant of the month
\* at the time of the call, in UTC; `month` is the calendar month of the clock
DateFrom(st, subject_type, month) ==
    IF st[subject_type] = NoDate
    THEN [kind |-> "month_start", value |-> month]
    ELSE [kind |-> "cursor", value |-> st[subject_type]]

(* --------------------------- server answers ---------------------------- *)
Truncations == {"true", "false", "absent"}
\* the part URLs of a package: none, or one
PartLists == {<<>>, <<1>>}

\* the documents of an archive, all of one content
NameLists == UNION {[1..n -> FileNames] : n \in 0..MaxEntries}
EntryLists ==
    {[i \in 1..Len(names) |-> [name |-> names[i], content |-> content]] :
        names \in NameLists, content \in Contents}
Metadatas ==
    {NoMetadata,
     [present |-> TRUE, hasInvoices |-> FALSE, invoices |-> <<>>],
     [present |-> TRUE, hasInvoices |-> TRUE, invoices |-> << <<"a">>, <<"a", XML>> >>]}
Archives == [entries : EntryLists, metadata : Metadatas]
ArchiveA == [entries |-> <<[name |-> FileA, content |-> "v1"]>>, metadata |-> NoMetadata]
EmptyArchive == [entries |-> <<>>, metadata |-> NoMetadata]

\* packages that differ in their dates, with one fixed archive
PackagesByDate ==
    {[parts |-> parts,
      archive |-> IF Len(parts) = 0 THEN EmptyArchive ELSE ArchiveA,
      isTruncated |-> t, lastPermanentStorageDate |-> l, permanentStorageHwmDate |-> h] :
        parts \in PartLists, t \in Truncations, l \in MaybeDate, h \in MaybeDate}

\* packages that differ in their archive, without dates
PackagesByArchive ==
    {[parts |-> parts,
      archive |-> IF Len(parts) = 0 THEN EmptyArchive ELSE a,
      isTruncated |-> "false", lastPermanentStorageDate |-> NoDate,
      permanentStorageHwmDate |-> NoDate] :
        parts \in PartLists, a \in Archives}

NoStatusPackage == [hasPackage |-> FALSE, package |-> CHOOSE p \in PackagesByDate : Len(p.parts) = 0]
StatusWith(package) == [hasPackage |-> TRUE, package |-> package]

Faults(package) ==
    {[kind |-> "part", at |-> j] : j \in 1..Len(package.parts)}
        \cup {[kind |-> k, at |-> 0] : k \in {"decrypt", "zip"}}
        \cup {[kind |-> "write", at |-> n] : n \in 1..Len(Namelist(package.archive))}

RunScripts == {Script(n, 100, t) : n \in {1, MaxPending}, t \in FinalCodes}

(* ------------------------------- state --------------------------------- *)
VARIABLES
    stateFile,            \* .ksef_state.json: continuation point per subject type
    disk,                 \* faktury/: content per file name
    pc,                   \* where main() stands
    state,                \* InvoiceFetcher.state
    downloaded_invoices,  \* InvoiceFetcher.downloaded_invoices
    new_invoices,         \* InvoiceFetcher.new_invoices
    access_token,         \* KSeFClient.access_token
    auth_token,           \* authenticate(): auth_token
    idx,                  \* position of the loop over SUBJECT_TYPES
    output,               \* what main() printed
    exit_code,            \* -1 while running
    startFile,            \* history: the state file when the process started
    ev,                   \* history: the last operation and how it ended
    log,                  \* history: the requests sent by this process
    lastPkg,              \* history: the package processed last
    decrypts,             \* history: the decrypt_aes calls of this process
    now,                  \* the calendar month of the clock (UTC)
    retry,                \* history: the export that failed in the previous process
    reported,             \* history: the files named in the summaries printed so far
    arg,                  \* input of a function applied on its own
    ret                   \* its result

vars == <<stateFile, disk, pc, state, downloaded_invoices, new_invoices, access_token,
          auth_token, idx, output, exit_code, startFile, ev, log, lastPkg, decrypts,
          now, retry, reported, arg, ret>>

persistent == <<stateFile, disk>>
memory == <<state, downloaded_invoices, new_invoices>>
client == <<access_token, auth_token>>
printed == <<output, exit_code, reported>>
applied == <<arg, ret>>
clock == <<now, retry>>

NoOutput == [kind |-> "none", count |-> 0, invoices |-> <<>>]
NoCall == [fn |-> "none"]
EmptyState == [r \in Roles |-> NoDate]
EmptyDisk == [f \in FileNames |-> NoFile]
Running == -1

\* the symmetric key and the IV of an export; none outside export requests
NoEnvelope == [key |-> 0, iv |-> 0]

\* a request sent: its Authorization bearer and, for an export, the filters
\* (subjectType, dateRange.from, dateRange.to) and the encryption data
Request(req, bearer, role, date_from) ==
    [req |-> req, bearer |-> bearer, role |-> role, date_from |-> date_from,
     date_to |-> NoDate, envelope |-> NoEnvelope]
NoFrom == [kind |-> "none", value |-> NoDate]
NoRetry == [role |-> "", date_from |-> NoFrom]
\* the value of `retry` in behaviours that keep no history of failed exports
Unrecorded == [role |-> "<unrecorded>", date_from |-> NoFrom]

\* the value of `reported` in behaviours that keep no history of summaries
NoReports == << <<"<unrecorded>">> >>
\* the history of summaries after the records `invoices` were printed
Report(history, invoices) ==
    IF history = NoReports THEN history
    ELSE history \o [i \in 1..Len(invoices) |-> invoices[i].filename]

\* a fresh installation: no state file, an empty invoice directory
Fresh ==
    /\ stateFile = EmptyState
    /\ disk = EmptyDisk
    /\ pc = "main"
    /\ state = EmptyState
    /\ downloaded_invoices = {}
    /\ new_invoices = <<>>
    /\ access_token = NoToken
    /\ auth_token = NoToken
    /\ idx = 0
    /\ output = NoOutput
    /\ exit_code = Running
    /\ startFile = EmptyState
    /\ ev = [op |-> "launch", outcome |-> "ok"]
    /\ log = <<>>
    /\ lastPkg = <<>>
    /\ decrypts = <<>>
    /\ now = 1

Init ==
    /\ Fresh
    /\ retry = Unrecorded
    /\ reported = NoReports
    /\ arg = NoCall
    /\ ret = NoCall

\* an exception leaves the operation `op`
Raise(op, error) ==
    /\ pc' = "raised"
    /\ ev' = [op |-> op, outcome |-> error]

(* ------------------------- main(): construction ------------------------ *)
\* KSeFClient(...) and InvoiceFetcher(...): public keys fetched, state loaded
Construct(resp) ==
    /\ pc = "main"
    /\ IF resp = "ok"
       THEN /\ pc' = "challenge"
            /\ ev' = [op |-> "construct", outcome |-> "ok"]
            /\ state' = stateFile
            /\ downloaded_invoices' = {}
            /\ new_invoices' = <<>>
            /\ access_token' = NoToken
       ELSE /\ Raise("construct", resp)
            /\ UNCHANGED <<memory, access_token>>
    /\ UNCHANGED <<persistent, auth_token, idx, printed, startFile, log, lastPkg, decrypts, clock, applied>>

(* --------------------------- authenticate() ---------------------------- *)
GetChallenge(resp) ==
    /\ pc = "challenge"
    /\ log' = Append(log, Request("challenge", NoToken, "", NoFrom))
    /\ IF resp = "ok"
       THEN pc' = "submit" /\ ev' = [op |-> "challenge", outcome |-> "ok"]
       ELSE Raise("challenge", resp)
    /\ UNCHANGED <<persistent, memory, client, idx, printed, startFile, lastPkg, decrypts, clock, applied>>

\* faulty variant: the authentication token is kept as the access token
SubmitAuthStoresToken(resp, token) ==
    /\ pc = "submit"
    /\ log' = Append(log, Request("ksef-token", NoToken, "", NoFrom))
    /\ IF resp = "ok"
       THEN /\ pc' = "auth_poll"
            /\ ev' = [op |-> "submit", outcome |-> "ok"]
            /\ auth_token' = token
            /\ access_token' = token
       ELSE /\ Raise("submit", resp)
            /\ UNCHANGED <<auth_token, access_token>>
    /\ UNCHANGED <<persistent, memory, idx, printed, startFile, lastPkg, decrypts, clock, applied>>

SubmitAuth(resp, token) ==
    /\ pc = "submit"
    /\ log' = Append(log, Request("ksef-token", NoToken, "", NoFrom))
    /\ IF resp = "ok"
       THEN /\ pc' = "auth_poll"
            /\ ev' = [op |-> "submit", outcome |-> "ok"]
            /\ auth_token' = token
       ELSE /\ Raise("submit", resp)
            /\ UNCHANGED auth_token
    /\ UNCHANGED <<persistent, memory, access_token, idx, printed, startFile, lastPkg, decrypts, clock, applied>>

\* faulty variant: the outcome of the poll is not looked at
WaitForAuthCompletionGoesOn(script) ==
    /\ pc = "auth_poll"
    /\ LET poll == WaitForAuthCompletionResult(script)
       IN  /\ log' = Append(log, Request("auth_status", auth_token, "", NoFrom))
           /\ pc' = "redeem"
           /\ ev' = [op |-> "auth_poll", outcome |-> poll.result]
    /\ UNCHANGED <<persistent, memory, client, idx, printed, startFile, lastPkg, decrypts, clock,
                   applied>>

WaitForAuthCompletion(script) ==
    /\ pc = "auth_poll"
    /\ LET poll == WaitForAuthCompletionResult(script)
       IN  /\ log' = Append(log, Request("auth_status", auth_token, "", NoFrom))
           /\ IF poll.result = "ok"
              THEN pc' = "redeem" /\ ev' = [op |-> "auth_poll", outcome |-> "ok"]
              ELSE Raise("auth_poll", poll.result)
    /\ UNCHANGED <<persistent, memory, client, idx, printed, startFile, lastPkg, decrypts, clock, applied>>

RedeemToken(resp, token) ==
    /\ pc = "redeem"
    /\ log' = Append(log, Request("redeem", auth_token, "", NoFrom))
    /\ IF resp = "ok"
       THEN /\ pc' = "fetch"
            /\ idx' = 1
            /\ ev' = [op |-> "redeem", outcome |-> "ok"]
            /\ access_token' = token
       ELSE /\ Raise("redeem", resp)
            /\ UNCHANGED <<access_token, idx>>
    /\ UNCHANGED <<persistent, memory, auth_token, printed, startFile, lastPkg, decrypts, clock, applied>>

(* ----------------------- _fetch_for_subject_type ----------------------- *)
\* os.urandom: the value of the call that follows `calls` earlier calls of
\* this process; the generator is taken as one that never repeats a value
Urandom(calls) == calls + 1

\* the calls of os.urandom before this one: two per export request sent
UrandomCalls == 2 * Cardinality({k \in 1..Len(log) : log[k].req = "export"})

\* faulty variant: key and IV are generated once and kept for every export
GenerateEnvelopeOnce(calls) == [key |-> Urandom(0), iv |-> Urandom(1)]

\* encryption_key is None, encryption_iv is None: both are generated
GenerateEnvelope(calls) == [key |-> Urandom(calls), iv |-> Urandom(calls + 1)]

\* the export request: date_to is None (no "to" in the date range), the key
\* and IV of the call go out in the encryption data
ExportRequest(token, subject_type, date_from, envelope) ==
    [Request("export", token, subject_type, date_from) EXCEPT !.envelope = envelope]

\* faulty variant: the request is sent whatever the token
ExportInvoicesNoGate(token, subject_type, date_from, resp) ==
    LET envelope == GenerateEnvelope(UrandomCalls)
    IN  [raised |-> resp # "ok",
         error |-> resp,
         envelope |-> envelope,
         sent |-> <<ExportRequest(token, subject_type, date_from, envelope)>>]

\* export_invoices: refused without a token before anything is sent; the
\* key and IV generated are returned with the response
ExportInvoices(token, subject_type, date_from, resp) ==
    IF ~Truthy(token)
    THEN [raised |-> TRUE, error |-> "not_authenticated", envelope |-> NoEnvelope,
          sent |-> <<>>]
    ELSE LET envelope == GenerateEnvelope(UrandomCalls)
         IN  [raised |-> resp # "ok",
              error |-> resp,
              envelope |-> envelope,
              sent |-> <<ExportRequest(token, subject_type, date_from, envelope)>>]

FaultApplies(fs, package, fault) ==
    \/ fault = NoFault
    \/ /\ Len(package.parts) > 0
       /\ fault \in Faults(package)
       /\ fault.kind = "write" => WritesAt(fs, package.archive, fault.at)

\* the loop of fetch_invoices moves on to the next subject type
NextSubjectType ==
    /\ idx' = idx + 1
    /\ pc' = IF idx = Len(SUBJECT_TYPES) THEN "save" ELSE "fetch"

\* one turn of the loop of fetch_invoices: export request `resp`, outcome
\* `poll` of _wait_for_export_completion, final status `status`, fault met
\* in its package
FetchForSubjectType(resp, poll, status, fault) ==
    /\ pc = "fetch"
    /\ LET subject_type == SUBJECT_TYPES[idx]
           export == ExportInvoices(access_token, subject_type,
                                    DateFrom(state, subject_type, now), resp)
           polled == export.sent \o
                     (IF poll.requests > 0
                      THEN <<Request("export_status", access_token, subject_type, NoFrom)>>
                      ELSE <<>>)
           fs == [disk |-> disk, seen |-> downloaded_invoices, new |-> new_invoices]
           done == ProcessPackage(fs, status.package, export.envelope, fault)
           fetched == polled \o
                      (IF done.downloads > 0
                       THEN <<Request("part", NoToken, subject_type, NoFrom)>>
                       ELSE <<>>)
       IN  IF export.raised
           THEN /\ Raise("export", export.error)
                /\ log' = log \o export.sent
                /\ UNCHANGED <<disk, memory, idx, lastPkg, decrypts>>
           ELSE IF poll.result # "ok"
           THEN /\ Raise("export_poll", poll.result)
                /\ log' = log \o polled
                /\ UNCHANGED <<disk, memory, idx, lastPkg, decrypts>>
           ELSE IF ~status.hasPackage
           THEN /\ NextSubjectType
                /\ ev' = [op |-> "fetch", outcome |-> "no_package"]
                /\ log' = log \o polled
                /\ UNCHANGED <<disk, memory, lastPkg, decrypts>>
           ELSE /\ FaultApplies(fs, status.package, fault)
                /\ log' = log \o fetched
                /\ decrypts' = decrypts \o done.decrypt
                /\ disk' = done.fs.disk
                /\ downloaded_invoices' = done.fs.seen
                /\ new_invoices' = done.fs.new
                /\ state' = CursorAfter(state, subject_type, status.package, done.raised)
                /\ IF done.raised
                   THEN /\ Raise("process_package", fault.kind)
                        /\ UNCHANGED <<idx, lastPkg>>
                   ELSE /\ NextSubjectType
                        /\ ev' = [op |-> "fetch", outcome |-> "ok"]
                        /\ lastPkg' = <<[parts |-> status.package.parts,
                                         archive |-> status.package.archive]>>
    /\ UNCHANGED <<stateFile, client, printed, startFile, clock, applied>>

ExportPolls ==
    {WaitForExportCompletionResult(access_token, script) : script \in RunScripts}

\* the export request fails: nothing is polled
FetchExportFails ==
    /\ pc = "fetch"
    /\ FetchForSubjectType("http_error",
                           WaitForExportCompletionResult(access_token, Script(0, 100, 200)),
                           NoStatusPackage, NoFault)

FetchPollFails ==
    /\ pc = "fetch"
    /\ \E poll \in ExportPolls :
        /\ poll.result # "ok"
        /\ FetchForSubjectType("ok", poll, NoStatusPackage, NoFault)

FetchPackageFails(packages) ==
    /\ pc = "fetch"
    /\ \E poll \in ExportPolls :
        /\ poll.result = "ok"
        /\ \E package \in packages : \E fault \in Faults(package) :
               FetchForSubjectType("ok", poll, StatusWith(package), fault)

FetchCompletes(packages) ==
    /\ pc = "fetch"
    /\ \E poll \in ExportPolls :
        /\ poll.result = "ok"
        /\ \E status \in {NoStatusPackage} \cup {StatusWith(p) : p \in packages} :
               FetchForSubjectType("ok", poll, status, NoFault)

(* ---------------------- fetch_invoices() and main() -------------------- *)
\* faulty variant: the client's token is dumped with the state
SaveStateDumpsToken ==
    /\ pc = "save"
    /\ stateFile' = state @@ ("access_token" :> access_token)
    /\ pc' = "print"
    /\ ev' = [op |-> "save_state", outcome |-> "ok"]
    /\ UNCHANGED <<disk, memory, client, idx, printed, startFile, log, lastPkg, decrypts, clock,
                   applied>>

\* self._save_state() after the loop
SaveState ==
    /\ pc = "save"
    /\ stateFile' = state
    /\ pc' = "print"
    /\ ev' = [op |-> "save_state", outcome |-> "ok"]
    /\ UNCHANGED <<disk, memory, client, idx, printed, startFile, log, lastPkg, decrypts, clock, applied>>

\* faulty variant: the count is that of the identifiers seen
PrintOutputCountsSeen ==
    /\ pc = "print"
    /\ output' = [kind |-> "summary", count |-> Cardinality(downloaded_invoices),
                  invoices |-> new_invoices]
    /\ reported' = Report(reported, output'.invoices)
    /\ exit_code' = 0
    /\ pc' = "exited"
    /\ ev' = [op |-> "print", outcome |-> "ok"]
    /\ UNCHANGED <<persistent, memory, client, idx, startFile, log, lastPkg, decrypts, clock,
                   applied>>

\* _format_output() and print(output); the process ends with status 0
PrintOutput ==
    /\ pc = "print"
    /\ output' = [kind |-> "summary", count |-> Len(new_invoices), invoices |-> new_invoices]
    /\ reported' = Report(reported, output'.invoices)
    /\ exit_code' = 0
    /\ pc' = "exited"
    /\ ev' = [op |-> "print", outcome |-> "ok"]
    /\ UNCHANGED <<persistent, memory, client, idx, startFile, log, lastPkg, decrypts, clock, applied>>

\* faulty variant: the exception of a subject type is swallowed and the loop
\* goes on with the next one
MainExceptGoesOn ==
    /\ pc = "raised"
    /\ IF idx \in 1..(Len(SUBJECT_TYPES) - 1)
       THEN /\ pc' = "fetch"
            /\ idx' = idx + 1
            /\ UNCHANGED printed
       ELSE /\ output' = [kind |-> "error", count |-> 0, invoices |-> <<>>]
            /\ reported' = Report(reported, output'.invoices)
            /\ exit_code' = 1
            /\ pc' = "exited"
            /\ UNCHANGED idx
    /\ UNCHANGED <<persistent, memory, client, startFile, ev, log, lastPkg, decrypts, clock,
                   applied>>

\* except Exception: the error report and sys.exit(1)
MainExcept ==
    /\ pc = "raised"
    /\ output' = [kind |-> "error", count |-> 0, invoices |-> <<>>]
    /\ reported' = Report(reported, output'.invoices)
    /\ exit_code' = 1
    /\ pc' = "exited"
    /\ UNCHANGED <<persistent, memory, client, idx, startFile, ev, log, lastPkg, decrypts, clock, applied>>

\* the program is started again: a new process, the same files
Relaunch ==
    /\ pc = "exited"
    /\ pc' = "main"
    /\ state' = EmptyState
    /\ downloaded_invoices' = {}
    /\ new_invoices' = <<>>
    /\ access_token' = NoToken
    /\ auth_token' = NoToken
    /\ idx' = 0
    /\ output' = NoOutput
    /\ exit_code' = Running
    /\ startFile' = stateFile
    /\ ev' = [op |-> "launch", outcome |-> "ok"]
    /\ log' = <<>>
    /\ decrypts' = <<>>
    /\ retry' = IF retry = Unrecorded THEN retry
                 ELSE IF pc = "exited" /\ exit_code = 1
                    /\ ev.op \in {"export", "export_poll", "process_package"}
                    /\ \E k \in 1..Len(log) : log[k].req = "export"
                                               /\ log[k].role = SUBJECT_TYPES[idx]
                 THEN LET k == CHOOSE k \in 1..Len(log) :
                                   log[k].req = "export" /\ log[k].role = SUBJECT_TYPES[idx]
                      IN  [role |-> log[k].role, date_from |-> log[k].date_from]
                 ELSE NoRetry
    /\ UNCHANGED <<persistent, lastPkg, now, reported, applied>>

\* the clock passes into the next calendar month between two runs
MonthPasses ==
    /\ pc = "exited"
    /\ now < MaxMonth
    /\ now' = now + 1
    /\ UNCHANGED <<persistent, pc, memory, client, idx, printed, startFile, ev, log, lastPkg,
                   decrypts, retry, applied>>

Process ==
    \/ \E resp \in {"ok", "no_certificate", "http_error"} : Construct(resp)
    \/ \E resp \in {"ok", "http_error"} : GetChallenge(resp)
    \/ \E resp \in {"ok", "http_error"}, token \in AuthTokens : SubmitAuth(resp, token)
    \/ \E script \in RunScripts : WaitForAuthCompletion(script)
    \/ \E resp \in {"ok", "http_error"}, token \in AccessTokens : RedeemToken(resp, token)
    \/ FetchExportFails
    \/ FetchPollFails
    \/ SaveState
    \/ PrintOutput
    \/ MainExcept
    \/ Relaunch

\* runs whose packages differ in their dates
Next ==
    \/ Process
    \/ FetchPackageFails(PackagesByDate)
    \/ FetchCompletes(PackagesByDate)

Spec == Init /\ [][Next]_vars

\* runs whose packages differ in their archives
NextExtract ==
    \/ Process
    \/ FetchPackageFails(PackagesByArchive)
    \/ FetchCompletes(PackagesByArchive)

SpecExtract == Init /\ [][NextExtract]_vars

\* runs that keep the history of the summaries printed
InitReport ==
    /\ Fresh
    /\ retry = Unrecorded
    /\ reported = <<>>
    /\ arg = NoCall
    /\ ret = NoCall

SpecReport == InitReport /\ [][Next]_vars

\* runs that keep the history of the export that failed, under a clock that
\* passes from month to month; complete packages without a date, and
\* truncated packages whose last invoice has the first date
RetryPackages ==
    {p \in PackagesByDate :
        \/ /\ p.isTruncated = "false"
           /\ p.lastPermanentStorageDate = NoDate
           /\ p.permanentStorageHwmDate = NoDate
        \/ /\ p.isTruncated = "true"
           /\ p.lastPermanentStorageDate = 1
           /\ p.permanentStorageHwmDate = NoDate}

InitRetry ==
    /\ Fresh
    /\ retry = NoRetry
    /\ reported = NoReports
    /\ arg = NoCall
    /\ ret = NoCall

NextRetry ==
    \/ Process
    \/ MonthPasses
    \/ FetchPackageFails(RetryPackages)
    \/ FetchCompletes(RetryPackages)

SpecRetry == InitRetry /\ [][NextRetry]_vars

(* --------------- the polling loops applied on their own ---------------- *)
PollCalls ==
    [fn : {"poll"}, who : {"auth", "export"}, token : {"accessToken"},
     n : 0..MaxPending, pending : PendingCodes, final : FinalCodes \cup PendingCodes,
     description : Descriptions]

InitPoll ==
    /\ Fresh
    /\ retry = Unrecorded
    /\ reported = NoReports
    /\ arg \in PollCalls
    /\ ret = NoCall

\* _wait_for_auth_completion / _wait_for_export_completion against a
\* status endpoint that answers arg.n times arg.pending and then arg.final
ApplyPoll ==
    /\ arg.fn = "poll"
    /\ ret = NoCall
    /\ ret' = LET script == Script(arg.n, arg.pending, arg.final)
              IN  IF arg.who = "auth"
                  THEN WaitForAuthCompletionResult(script)
                  ELSE WaitForExportCompletionResult(arg.token, script)
    /\ ev' = [op |-> "poll", outcome |-> PollMessage(arg.who, ret'.result, arg.description)]
    /\ UNCHANGED <<persistent, pc, memory, client, idx, printed, startFile, log,
                   lastPkg, decrypts, clock, arg>>

SpecPoll == InitPoll /\ [][ApplyPoll]_vars

(* ------- _process_package and the cursor update applied on their own ---- *)
\* part lists of up to MaxParts URLs, in any order
OrderedParts ==
    {parts \in UNION {[1..n -> 1..MaxParts] : n \in 0..MaxParts} :
        \A i, j \in 1..Len(parts) : i # j => parts[i] # parts[j]}

PackageCalls ==
    {[fn |-> "package", state |-> [r \in Roles |-> d], subject_type |-> subject_type,
      package |-> [p EXCEPT !.parts = parts], envelope |-> GenerateEnvelope(0),
      fault |-> fault] :
        d \in MaybeDate, subject_type \in Roles,
        parts \in OrderedParts,
        p \in PackagesByDate,
        fault \in {NoFault} \cup {[kind |-> "part", at |-> j] : j \in 1..MaxParts}
                           \cup {[kind |-> k, at |-> 0] : k \in {"decrypt", "zip"}}}

\* a package has an archive exactly when it has parts
InitPackage ==
    /\ Fresh
    /\ retry = Unrecorded
    /\ reported = NoReports
    /\ arg \in {call \in PackageCalls :
                    /\ (call.package.parts = <<>>) <=> (call.package.archive = EmptyArchive)
                    /\ call.fault = NoFault \/ call.fault \in Faults(call.package)}
    /\ ret = NoCall

\* lines 105-108 of _fetch_for_subject_type against an empty directory
ApplyPackage ==
    /\ arg.fn = "package"
    /\ ret = NoCall
    /\ ret' = LET fs == [disk |-> EmptyDisk, seen |-> {}, new |-> <<>>]
                  done == ProcessPackage(fs, arg.package, arg.envelope, arg.fault)
              IN  [fn |-> "package", done |-> done,
                   state |-> CursorAfter(arg.state, arg.subject_type, arg.package,
                                         done.raised)]
    /\ UNCHANGED <<persistent, pc, memory, client, idx, printed, startFile, ev, log,
                   lastPkg, decrypts, clock, arg>>

SpecPackage == InitPackage /\ [][ApplyPackage]_vars

(* --------------------- decrypt_aes applied on its own ------------------ *)
\* the block of AES, in bytes
BLOCK_SIZE == 16
Bytes == 0..255

\* decrypt_aes on a ciphertext of `size` bytes whose decryption ends with the
\* byte `last`; the plaintext returned is the beginning of the decryption, of
\* the length given. CBC without an unpadder: finalize() raises on a size that
\* is no multiple of the block; decrypted[-1] raises on no bytes at all;
\* decrypted[:-n] is empty for n = 0 and for n >= size
DecryptAes(size, last) ==
    IF size % BLOCK_SIZE # 0
    THEN [raised |-> TRUE, error |-> "ValueError", length |-> 0]
    ELSE IF size = 0
    THEN [raised |-> TRUE, error |-> "IndexError", length |-> 0]
    ELSE LET padding_length == last
         IN  [raised |-> FALSE, error |-> "",
              length |-> IF padding_length = 0 \/ padding_length >= size THEN 0
                         ELSE size - padding_length]

DecryptCalls ==
    {[fn |-> "decrypt", size |-> size, last |-> last] :
        size \in 0..(MaxBlocks * BLOCK_SIZE), last \in Bytes}

InitDecrypt ==
    /\ Fresh
    /\ retry = Unrecorded
    /\ reported = NoReports
    /\ arg \in {call \in DecryptCalls : call.size = 0 => call.last = 0}
    /\ ret = NoCall

ApplyDecrypt ==
    /\ arg.fn = "decrypt"
    /\ ret = NoCall
    /\ ret' = DecryptAes(arg.size, arg.last)
    /\ UNCHANGED <<persistent, pc, memory, client, idx, printed, startFile, ev, log,
                   lastPkg, decrypts, clock, arg>>

SpecDecrypt == InitDecrypt /\ [][ApplyDecrypt]_vars

(* ----------- _update_continuation_point applied on its own ------------- *)
UpdateCalls ==
    [fn : {"update"}, state : [Roles -> MaybeDate], subject_type : Roles,
     package : PackagesByDate]

InitCursor ==
    /\ Fresh
    /\ retry = Unrecorded
    /\ reported = NoReports
    /\ arg \in UpdateCalls
    /\ ret = NoCall

ApplyUpdate ==
    /\ arg.fn = "update"
    /\ ret = NoCall
    /\ ret' = [fn |-> "update",
               state |-> UpdateContinuationPoint(arg.state, arg.subject_type, arg.package)]
    /\ UNCHANGED <<persistent, pc, memory, client, idx, printed, startFile, ev, log,
                   lastPkg, decrypts, clock, arg>>

SpecCursor == InitCursor /\ [][ApplyUpdate]_vars

(* ============================== claims ================================= *)
AuthOps == {"challenge", "submit", "auth_poll", "redeem"}
ExportRequests == {"export", "export_status", "part"}
Subject(i) == SUBJECT_TYPES[i]
\* the subject types the loop has completed are those before idx
Completed(i) == i < idx
\* a package was fully processed by the step taken
Processed == pc = "fetch" /\ idx' = idx + 1 /\ ev'.outcome = "ok"

\* C1: as soon as a subject type is completed its cursor is in the state
\* file: before the next export is requested, and when a later one fails.
PersistedAfterEachRole ==
    \A i \in 1..Len(SUBJECT_TYPES) :
        Completed(i) => stateFile[Subject(i)] = state[Subject(i)]

\* C2: the cursor a successful run leaves in the state file is never
\* earlier than the one it found there, whatever dates the packages carry.
MonotonicCursor ==
    (pc = "exited" /\ exit_code = 0) =>
        \A r \in Roles : stateFile[r] >= startFile[r]

\* C3: a subject type that was not completed has the cursor the run started
\* with, in memory and in the state file; the state file changes only after
\* every subject type was completed.
CursorOnlyAfterSuccess ==
    /\ idx <= Len(SUBJECT_TYPES) => stateFile = startFile
    /\ (idx >= 1 \/ pc \in {"challenge", "submit", "auth_poll", "redeem"}) =>
           \A i \in 1..Len(SUBJECT_TYPES) :
               ~Completed(i) => state[Subject(i)] = startFile[Subject(i)]

\* a subject type has failed in its package after an earlier one advanced
CursorOnlyAfterSuccessWitness ==
    /\ pc = "raised"
    /\ ev.op = "process_package"
    /\ idx = 2
    /\ state[Subject(1)] # startFile[Subject(1)]
    /\ state[Subject(2)] = startFile[Subject(2)]

\* C4: a truncated package with lastPermanentStorageDate moves the cursor of
\* its subject type to that date, a package not truncated with
\* permanentStorageHwmDate to that one; no other cursor changes.
TruncationAwareAdvance ==
    ret # NoCall =>
        LET package == arg.package
            subject_type == arg.subject_type
        IN  /\ (package.isTruncated = "true" /\ package.lastPermanentStorageDate # NoDate)
                   => ret.state[subject_type] = package.lastPermanentStorageDate
            /\ (package.isTruncated \in {"false", "absent"}
                    /\ package.permanentStorageHwmDate # NoDate)
                   => ret.state[subject_type] = package.permanentStorageHwmDate
            /\ \A r \in Roles \ {subject_type} : ret.state[r] = arg.state[r]

\* truncated, D1 = 1 < D2 = 2, a later cursor before: the cursor is D1
TruncationAwareAdvanceWitness ==
    /\ ret # NoCall
    /\ arg.package.isTruncated = "true"
    /\ arg.package.lastPermanentStorageDate = 1
    /\ arg.package.permanentStorageHwmDate = 2
    /\ arg.state[arg.subject_type] = 2
    /\ ret.state[arg.subject_type] = 1

\* C5: a package processed again right after it was processed, in the same
\* run or in the next one, changes no file and adds no record.
IdempotentExtraction ==
    [][(Processed /\ lastPkg # <<>> /\ lastPkg' = lastPkg)
          => (disk' = disk /\ new_invoices' = new_invoices)]_vars

\* C6: a document whose file exists and whose identifier was not seen gets
\* its identifier seen; its file is left as it is and no record of it added.
ReconcileExisting ==
    [][Processed =>
          LET archive == lastPkg'[1].archive
          IN  \A i \in 1..Len(archive.entries) :
                  LET filename == archive.entries[i].name
                      ksef_number == KsefNumber(filename, archive.metadata)
                  IN  (disk[filename] # NoFile /\ ksef_number \notin downloaded_invoices)
                          => /\ ksef_number \in downloaded_invoices'
                             /\ disk'[filename] = disk[filename]
                             /\ \A j \in (Len(new_invoices) + 1)..Len(new_invoices') :
                                    new_invoices'[j].filename # filename]_vars

\* a.xml of another content was on disk: it is seen, kept and not recorded
ReconcileExistingWitness ==
    /\ ev = [op |-> "fetch", outcome |-> "ok"]
    /\ lastPkg = <<[parts |-> <<1>>,
                    archive |-> [entries |-> <<[name |-> FileA, content |-> "v2"]>>,
                                 metadata |-> NoMetadata]]>>
    /\ disk[FileA] = "v1"
    /\ downloaded_invoices = {<<"a">>}
    /\ new_invoices = <<>>

\* C7: the records of the new invoices of a run have distinct identifiers.
UniqueByIdentifier ==
    \A i, j \in 1..Len(new_invoices) :
        i # j => new_invoices[i].ksefNumber # new_invoices[j].ksefNumber

\* two documents of one identifier in one archive, one record
UniqueByIdentifierWitness ==
    /\ ev = [op |-> "fetch", outcome |-> "ok"]
    /\ lastPkg # <<>>
    /\ LET archive == lastPkg[1].archive
       IN  /\ Len(archive.entries) = 2
           /\ archive.entries[1].name # archive.entries[2].name
           /\ KsefNumber(archive.entries[1].name, archive.metadata)
                  = KsefNumber(archive.entries[2].name, archive.metadata)
    /\ Len(new_invoices) = 1

\* C8: N pending answers and then 200, N below the ceiling (10 for the
\* authentication, 60 for the export): N + 1 requests, N sleeps, success;
\* pending answers up to the ceiling: as many requests, then the timeout.
PollTermination ==
    ret # NoCall =>
        LET ceiling == IF arg.who = "auth" THEN 10 ELSE 60
        IN  /\ (arg.final = 200 /\ arg.n < ceiling)
                   => ret = [result |-> "ok", requests |-> arg.n + 1, sleeps |-> arg.n]
            /\ (arg.n >= ceiling \/ arg.final \in PendingCodes)
                   => (ret.result = "timeout" /\ ret.requests = ceiling)

\* the last attempt the export poll has is the one answered 200
PollTerminationWitness ==
    /\ ret # NoCall
    /\ arg.who = "export"
    /\ arg.n = 59
    /\ arg.final = 200
    /\ ret.result = "ok"
    /\ ret.requests = 60

\* C9: access_token is set only after challenge, submission, status poll and
\* redemption succeeded; after a failure of authenticate() it is unset, and
\* it is never the authentication token.
NoPartialCredential ==
    /\ access_token # NoToken =>
           /\ Len(log) >= 4
           /\ <<log[1].req, log[2].req, log[3].req, log[4].req>>
                  = <<"challenge", "ksef-token", "auth_status", "redeem">>
           /\ idx >= 1
    /\ (pc \in {"raised", "exited"} /\ ev.op \in AuthOps) => access_token = NoToken
    /\ access_token \notin AuthTokens

\* the redemption failed: the authentication token is held, no access token
NoPartialCredentialWitness ==
    /\ pc = "raised"
    /\ ev.op = "redeem"
    /\ auth_token \in AuthTokens
    /\ access_token = NoToken

\* C10: an export request, an export status request or a part download is
\* sent only after the redemption and with a token held; without a token
\* export_invoices raises and sends nothing; a failure of authenticate()
\* ends the run without any of them.
CredentialGate ==
    /\ \A k \in 1..Len(log) :
           log[k].req \in ExportRequests =>
               /\ Truthy(access_token)
               /\ log[k].req # "part" => log[k].bearer = access_token
               /\ \E j \in 1..(k - 1) : log[j].req = "redeem"
    /\ ev.outcome = "not_authenticated" =>
           \A k \in 1..Len(log) : log[k].req \notin ExportRequests
    /\ (pc \in {"raised", "exited"} /\ ev.op \in AuthOps) =>
           /\ idx = 0
           /\ \A k \in 1..Len(log) : log[k].req \notin ExportRequests

\* the redemption gave an empty token: the export is refused, nothing sent
CredentialGateWitness ==
    /\ pc = "raised"
    /\ ev = [op |-> "export", outcome |-> "not_authenticated"]
    /\ access_token = ""
    /\ Len(log) = 4

\* the positions of the export requests in a log
Exports(requests) == {k \in 1..Len(requests) : requests[k].req = "export"}
\* the export request sent last
LastExport(requests) == CHOOSE k \in Exports(requests) : \A j \in Exports(requests) : j <= k

\* C11: the export requests of a run carry pairwise different keys and IVs,
\* none of them absent, and a package is decrypted with the key and the IV
\* that went out with the export request of its own subject type.
OneEnvelopePerJob ==
    [][/\ \A j, k \in Exports(log') :
              /\ log'[j].envelope # NoEnvelope
              /\ j # k => /\ log'[j].envelope.key # log'[k].envelope.key
                          /\ log'[j].envelope.iv # log'[k].envelope.iv
       /\ Len(decrypts') > Len(decrypts) =>
              LET call == decrypts'[Len(decrypts')]
                  job == log'[LastExport(log')]
              IN  /\ Len(decrypts') = Len(decrypts) + 1
                  /\ job.role = Subject(idx)
                  /\ call.key = job.envelope.key
                  /\ call.iv = job.envelope.iv
                  /\ \A j \in Exports(log') \ {LastExport(log')} :
                         call.key # log'[j].envelope.key]_vars

\* the packages of two subject types were decrypted, each with its own key
OneEnvelopePerJobWitness ==
    /\ Len(decrypts) = 2
    /\ decrypts[1].key # decrypts[2].key
    /\ decrypts[1].iv # decrypts[2].iv
    /\ Cardinality(Exports(log)) = 2

\* the sequence `short` is the beginning of the sequence `long`
IsPrefix(short, long) ==
    Len(short) <= Len(long) /\ \A i \in 1..Len(short) : short[i] = long[i]

\* C12: the parts are requested in the listed order, decrypt_aes is called
\* only after all of them were fetched, on their bytes in that order; when
\* the fetch of a part fails nothing is decrypted, no file is written, no
\* record is added and the cursor stays as it was.
NoPartialCredit ==
    ret # NoCall =>
        /\ IsPrefix(ret.done.fetched, arg.package.parts)
        /\ ret.done.decrypt # <<>> =>
               /\ ret.done.fetched = arg.package.parts
               /\ ret.done.decrypt[1].data = arg.package.parts
        /\ arg.fault.kind = "part" =>
               /\ ret.done.raised
               /\ Len(ret.done.fetched) = arg.fault.at
               /\ ret.done.decrypt = <<>>
               /\ ret.done.fs.disk = EmptyDisk
               /\ ret.done.fs.new = <<>>
               /\ ret.state = arg.state

\* the second of three parts fails; the package would have moved the cursor
NoPartialCreditWitness ==
    /\ ret # NoCall
    /\ arg.package.parts = <<2, 1, 3>>
    /\ arg.fault = [kind |-> "part", at |-> 2]
    /\ ret.done.fetched = <<2, 1>>
    /\ UpdateContinuationPoint(arg.state, arg.subject_type, arg.package) # arg.state
    /\ ret.state = arg.state

\* the run has failed: an exception is on its way to main(), or was reported
Failed == pc = "raised" \/ (pc = "exited" /\ ev.op # "print")
LaterRoles(i) == {Subject(j) : j \in (i + 1)..Len(SUBJECT_TYPES)}

\* C13: once a step of subject type k has failed, the only step the process
\* takes is the error report with exit status 1, no summary is printed, and
\* the requests of the run hold none for a later subject type.
FailureAbortsRun ==
    [][/\ pc = "raised" =>
              /\ pc' = "exited"
              /\ exit_code' = 1
              /\ output'.kind = "error"
              /\ log' = log
       /\ (Failed' /\ idx' \in 1..Len(SUBJECT_TYPES)) =>
              /\ \A k \in 1..Len(log') : log'[k].role \notin LaterRoles(idx')
              /\ exit_code' # 0
              /\ output'.kind # "summary"]_vars

\* the export poll of Subject1 failed: exit status 1, nothing for Subject2
FailureAbortsRunWitness ==
    /\ pc = "exited"
    /\ exit_code = 1
    /\ output.kind = "error"
    /\ ev.op = "export_poll"
    /\ idx = 1
    /\ \E k \in 1..Len(log) : log[k].req = "export" /\ log[k].role = Subject(1)
    /\ \A k \in 1..Len(log) : log[k].role \notin LaterRoles(1)

\* C14: the export request a run sends for the subject type whose export
\* failed in the previous run has the dateFrom of the request that failed,
\* also when that was the default.
RetrySameContinuationPoint ==
    \A k \in Exports(log) :
        log[k].role = retry.role => log[k].date_from = retry.date_from

\* C15: decrypt_aes raises on a decryption that is empty or whose last byte
\* is 0 or greater than the block size of 16, and returns no plaintext then.
PaddingValidation ==
    (ret # NoCall /\ arg.size % BLOCK_SIZE = 0) =>
        ((arg.size = 0 \/ arg.last = 0 \/ arg.last > BLOCK_SIZE) => ret.raised)

\* the place of the first entry of the name `filename` in a list of names
FirstPos(names, filename) ==
    CHOOSE i \in 1..Len(names) :
        names[i] = filename /\ \A j \in 1..(i - 1) : names[j] # filename

\* C16: a run starts without records; a step of a subject type appends one
\* record for each file it has newly put on disk, in the order of the
\* archive, and nothing else; no other step of the run changes the records
\* or the files; the summary printed is the list of these records and its
\* length.
SummaryIsAggregate ==
    [][/\ (pc = "main" /\ pc' = "challenge") => new_invoices' = <<>>
       /\ pc = "fetch" =>
              LET added == SubSeq(new_invoices', Len(new_invoices) + 1, Len(new_invoices'))
              IN  /\ IsPrefix(new_invoices, new_invoices')
                  /\ {added[i].filename : i \in 1..Len(added)}
                         = {f \in FileNames : disk[f] = NoFile /\ disk'[f] # NoFile}
                  /\ \A f \in FileNames : disk[f] # NoFile => disk'[f] = disk[f]
                  /\ \A i, j \in 1..Len(added) :
                         i < j => added[i].filename # added[j].filename
                  /\ Processed =>
                         \A i, j \in 1..Len(added) :
                             i < j =>
                                 LET names == Namelist(lastPkg'[1].archive)
                                 IN  FirstPos(names, added[i].filename)
                                         < FirstPos(names, added[j].filename)
       /\ pc \in {"challenge", "submit", "auth_poll", "redeem", "save", "print", "raised"} =>
              /\ new_invoices' = new_invoices
              /\ disk' = disk
       /\ pc = "print" =>
              /\ exit_code' = 0
              /\ output'.kind = "summary"
              /\ output'.invoices = new_invoices
              /\ output'.count = Len(new_invoices)]_vars

\* two documents written for two subject types are reported, in that order
SummaryIsAggregateWitness ==
    /\ pc = "exited"
    /\ exit_code = 0
    /\ output.count = 2
    /\ output.invoices[1].filename = FileA
    /\ output.invoices[2].filename = FileAX
    /\ Len(lastPkg[1].archive.entries) = 1
    /\ disk[FileA] # NoFile
    /\ disk[FileAX] # NoFile

\* C17: the state file holds the continuation points of the subject types
\* and nothing else: each entry is the one the process loaded or a date of a
\* package; no entry of another key (a token, a key, an IV) is written.
SecretsNeverPersisted ==
    /\ DOMAIN stateFile = Roles
    /\ \A r \in Roles : stateFile[r] \in {startFile[r]} \cup Dates

\* the state was saved while a token was held and a key had been used
SecretsNeverPersistedWitness ==
    /\ pc = "print"
    /\ stateFile # startFile
    /\ Truthy(access_token)
    /\ auth_token \in AuthTokens
    /\ Len(decrypts) > 0

AuthRequests == {"challenge", "ksef-token", "auth_status", "redeem"}
Handshake == <<"challenge", "ksef-token", "auth_status", "redeem">>

\* C18: the requests of authenticate() are the first requests of the run, in
\* the order challenge, submission, status polls, redemption, none of them
\* sent again later; the redemption is sent only when the status poll has
\* ended with code 200; status polls and redemption carry the
\* authenticationToken of the submission as bearer.
HandshakeOrder ==
    [][/\ LET auth == SelectSeq(log', LAMBDA r : r.req \in AuthRequests)
          IN  /\ IsPrefix(auth, log')
              /\ IsPrefix([i \in 1..Len(auth) |-> auth[i].req], Handshake)
       /\ \A k \in 1..Len(log') :
              log'[k].req \in {"auth_status", "redeem"} =>
                  /\ log'[k].bearer = auth_token'
                  /\ auth_token' \in AuthTokens
       /\ (Len(log') > Len(log) /\ log'[Len(log')].req = "redeem") =>
              /\ ev = [op |-> "auth_poll", outcome |-> "ok"]
              /\ log[Len(log)].req = "auth_status"]_vars

\* the handshake is complete: four requests, the last two with the bearer
HandshakeOrderWitness ==
    /\ pc = "fetch"
    /\ idx = 1
    /\ [i \in 1..Len(log) |-> log[i].req] = Handshake
    /\ log[3].bearer = "authenticationToken"
    /\ log[4].bearer = "authenticationToken"
    /\ log[1].bearer = NoToken

\* C19: in both polls, with N pending answers below the ceiling: a final code
\* 200 ends the poll with success; a final code of 400 or more ends it at
\* once, after N + 1 requests, with a failure whose message holds the
\* description of the server; any other code is followed by a sleep and the
\* next request as long as attempts remain.
PollClassification ==
    ret # NoCall =>
        LET ceiling == IF arg.who = "auth" THEN AUTH_MAX_ATTEMPTS ELSE EXPORT_MAX_ATTEMPTS
        IN  /\ (arg.n < ceiling /\ arg.final = 200) =>
                   (ret.result = "ok" /\ ret.requests = arg.n + 1)
            /\ (arg.n < ceiling /\ arg.final >= 400) =>
                   /\ ret.result = "rejected"
                   /\ ret.requests = arg.n + 1
                   /\ ret.sleeps = arg.n
                   /\ arg.description # NoDescription =>
                          ev.outcome[Len(ev.outcome)] = arg.description
            /\ ret.result = "ok" => (arg.n < ceiling /\ arg.final = 200)
            /\ ret.result = "rejected" => (arg.n < ceiling /\ arg.final >= 400)
            /\ arg.final \in PendingCodes =>
                   /\ ret.result = "timeout"
                   /\ ret.requests = ceiling
                   /\ ret.sleeps = ceiling
            /\ ret.requests >= (IF arg.n < ceiling THEN arg.n + 1 ELSE ceiling)
            /\ ret.sleeps >= (IF arg.n < ceiling THEN arg.n ELSE ceiling)

\* three answers 201 and then 500 with a description: four requests
PollClassificationWitness ==
    /\ ret # NoCall
    /\ arg.who = "auth"
    /\ arg.n = 3
    /\ arg.pending = 201
    /\ arg.final = 500
    /\ arg.description = "server description"
    /\ ret = [result |-> "rejected", requests |-> 4, sleeps |-> 3]
    /\ ev.outcome = <<"Uwierzytelnianie nie powiodlo sie: ", "server description">>

\* C20: the export requests of a run go out for Subject1, Subject2, Subject3
\* in that order, one for each, a truncated package included; each asks for
\* the invoices from the cursor the state file held for its subject type at
\* the start of the run, or from the start of the current month when it held
\* none, and names no upper bound; a run that succeeds has sent all three.
ExportFromCursor ==
    [][/\ LET sent == SelectSeq(log', LAMBDA r : r.req = "export")
          IN  IsPrefix([i \in 1..Len(sent) |-> sent[i].role], SUBJECT_TYPES)
       /\ (Len(log') > Len(log) /\ Exports(log') # Exports(log)) =>
              LET job == log'[LastExport(log')]
              IN  /\ Cardinality(Exports(log')) = Cardinality(Exports(log)) + 1
                  /\ job.role = Subject(idx)
                  /\ job.date_from =
                         IF startFile[job.role] # NoDate
                         THEN [kind |-> "cursor", value |-> startFile[job.role]]
                         ELSE [kind |-> "month_start", value |-> now]
                  /\ job.date_to = NoDate
       /\ (pc' = "exited" /\ exit_code' = 0) =>
              Cardinality(Exports(log')) = Len(SUBJECT_TYPES)]_vars

\* a second run, in the second month, after a first run that was given a
\* truncated package for Subject1 (the only ones of RetryPackages that
\* leave a cursor): Subject1 is asked once, from its cursor, Subject2
\* from the start of the second month
ExportFromCursorWitness ==
    /\ now = 2
    /\ startFile[Subject(1)] = 1
    /\ startFile[Subject(2)] = NoDate
    /\ Cardinality(Exports(log)) = 2
    /\ log[LastExport(log)].role = Subject(2)
    /\ log[LastExport(log)].date_from = [kind |-> "month_start", value |-> 2]
    /\ \E k \in Exports(log) :
           /\ log[k].role = Subject(1)
           /\ log[k].date_from = [kind |-> "cursor", value |-> 1]

\* C21: a package without parts is processed without a download, without a
\* decryption, without a file written and without a record added, raises
\* nothing, and moves the cursor as any other package does: to
\* lastPermanentStorageDate when truncated, to permanentStorageHwmDate when
\* not, where that date is present.
EmptyPackage ==
    (ret # NoCall /\ arg.package.parts = <<>>) =>
        LET package == arg.package
            date == IF package.isTruncated = "true"
                    THEN package.lastPermanentStorageDate
                    ELSE package.permanentStorageHwmDate
        IN  /\ ~ret.done.raised
            /\ ret.done.downloads = 0
            /\ ret.done.fetched = <<>>
            /\ ret.done.decrypt = <<>>
            /\ ret.done.fs.disk = EmptyDisk
            /\ ret.done.fs.seen = {}
            /\ ret.done.fs.new = <<>>
            /\ \A r \in Roles :
                   ret.state[r] = IF r = arg.subject_type /\ date # NoDate
                                  THEN date
                                  ELSE arg.state[r]

\* a truncated package without parts, whose last date is the second: the
\* cursor goes from the first date to the second
EmptyPackageWitness ==
    /\ ret # NoCall
    /\ arg.package.parts = <<>>
    /\ arg.package.isTruncated = "true"
    /\ arg.package.lastPermanentStorageDate = 2
    /\ arg.state[arg.subject_type] = 1
    /\ ret.state[arg.subject_type] = 2
    /\ ret.done.decrypt = <<>>
    /\ ret.done.downloads = 0

\* C22: a truncated package without lastPermanentStorageDate leaves the whole
\* state dict as it was, whatever its permanentStorageHwmDate; a package not
\* truncated without permanentStorageHwmDate leaves it as it was, whatever
\* its lastPermanentStorageDate.
MissingDateKeepsCursor ==
    ret # NoCall =>
        LET package == arg.package
        IN  /\ (package.isTruncated = "true" /\ package.lastPermanentStorageDate = NoDate)
                   => ret.state = arg.state
            /\ (package.isTruncated # "true" /\ package.permanentStorageHwmDate = NoDate)
                   => ret.state = arg.state

\* truncated, no last date, a permanentStorageHwmDate later than the cursor:
\* the cursor stays at the first date
MissingDateKeepsCursorWitness ==
    /\ ret # NoCall
    /\ arg.package.isTruncated = "true"
    /\ arg.package.lastPermanentStorageDate = NoDate
    /\ arg.package.permanentStorageHwmDate = 2
    /\ arg.state[arg.subject_type] = 1
    /\ ret.state[arg.subject_type] = 1

\* the number of times the file `filename` was named in a summary
TimesReported(filename) ==
    Cardinality({i \in 1..Len(reported) : reported[i] = filename})

\* C23: when a process has exited, every file of the invoice directory was
\* named as newly fetched in the summary of exactly one process so far.
EveryWrittenDocumentReported ==
    pc = "exited" =>
        \A filename \in FileNames :
            disk[filename] # NoFile => TimesReported(filename) = 1

====
